---- MODULE Spec2Model ----
(***************************************************************************)
(* Session registry and conversation handle of the chat backend.           *)
(*                                                                         *)
(*   src/api/routes/chat.py               the registry `sesiones` and the  *)
(*                                        five /chat endpoints             *)
(*   src/backend/agentes/agente_gemini.py AgenteGemini, the handle         *)
(*                                                                         *)
(* Every endpoint is an `async def` without a single `await`, served by    *)
(* one uvicorn process: a handler runs on the event loop from its first    *)
(* line to its return.  The only place where time passes inside a handler  *)
(* is the synchronous provider call chat.send_message (agente_gemini.py    *)
(* line 435); POST /chat/message is therefore split in two steps around    *)
(* that call, and while it is outstanding the event loop runs nothing.     *)
(***************************************************************************)
EXTENDS Integers, Sequences, FiniteSets, TLC

\* ---------------------------------------------------------------- bounds
MaxEnvios == 3      \* POST /chat/message requests accepted in one run
MaxPend == 2        \* of them, waiting for the event loop at once
MaxTexto == 3       \* characters of a text given to sanitizar_texto
MaxFilas == 2       \* calls of append_row on the sheet

\* ------------------------------------------------------------ identifiers
\* Optional[str] session identifiers: None, the empty string, strings
\* invented by a client, and strings produced by uuid.uuid4().
None == <<"none", 0>>
Vacio == <<"str", 0>>
Cliente(n) == <<"str", n>>
Uuid(n) == <<"uuid", n>>

IdsCliente == {Cliente(1)}
IdsUuid == {Uuid(n) : n \in 1..MaxEnvios}
Ids == IdsCliente \cup IdsUuid

\* message texts: "a" is the shortest and "b" the longest text the request
\* schema accepts; "" and "largo" are the nearest texts it refuses
Mensajes == {"a", "b"}
MensajesInvalidos == {"", "largo"}
MinLenMensaje == 1
MaxLenMensaje == 2000
Largo(m) ==
    CASE m = "" -> 0
      [] m = "a" -> MinLenMensaje
      [] m = "b" -> MaxLenMensaje
      [] m = "largo" -> MaxLenMensaje + 1
Errores == {"red", "cuota"}
ErroresTexto == {"sin_partes"}

VARIABLES
    sesiones,     \* chat.py:48   session_id -> reference of its AgenteGemini
    agentes,      \* the live AgenteGemini objects, by reference
    nextAgente,   \* next object reference (object identity)
    emitidos,     \* identifiers uuid4 has produced so far
    recibidos,    \* number of POST /chat/message requests accepted so far
    pendientes,   \* POST /chat/message requests accepted, handler not started
    enCurso,      \* the requests whose handler sits in the provider call
    ligados,      \* history: every reference obtener_o_crear_sesion returned, per id
    exitos,       \* history: provider calls that succeeded, per reference
    ultima,       \* the last step taken and what it returned
    texto,        \* a text, its sanitized form and that form sanitized again
    sheet,        \* sheets_service.sheet: NoSheet, or the data rows of the sheet
    appends,      \* how many times append_row was called
    peticion,     \* the body of the POST /api/leads request being served
    respuesta     \* the response to it, SinRespuesta until it is served

chatVars == <<sesiones, agentes, nextAgente, emitidos, recibidos, pendientes,
              enCurso, ligados, exitos, ultima>>
leadVars == <<sheet, appends, peticion, respuesta>>
vars == <<chatVars, texto, leadVars>>

\* ------------------------------------------------------- dict operations
Vacia == [x \in {} |-> 0]
Poner(f, k, v) == [x \in DOMAIN f \cup {k} |-> IF x = k THEN v ELSE f[x]]
Quitar(f, k) == [x \in DOMAIN f \ {k} |-> f[x]]

\* ------------------------------------------------------------------ turns
UserTurn(m) == <<"user", m>>
ModelTurn(m) == <<"model", m>>
\* the model turn of a reply that holds no text part
ModelTurnSinTexto == <<"model", "">>

\* AgenteGemini.__init__: start_chat(history=[]), total_mensajes = 0
AgenteNuevo == [total_mensajes |-> 0, history |-> <<>>]

\* `if not session_id`: None and "" are both falsy
Falsy(sid) == sid = None \/ sid = Vacio

\* uuid.uuid4(): a random 122-bit value, modelled as a value never produced
\* before (the n-th call yields the n-th identifier of the pool); a client
\* can only present a uuid it has been given.
\* variant: the generator repeats a value it has produced
Uuid4_repetido == {Uuid(1)}

Uuid4 == {Uuid(Cardinality(emitidos) + 1)}

Evento(op, sid, st, id, ag, cuerpo) ==
    [op |-> op, sid |-> sid, status |-> st, session_id |-> id,
     agente |-> ag, cuerpo |-> cuerpo]

\* no text is being sanitized
SinTexto == [paso |-> 0, x |-> <<>>, y |-> <<>>, yy |-> <<>>]

InitChat ==
    /\ sesiones = Vacia
    /\ agentes = Vacia
    /\ nextAgente = 1
    /\ emitidos = {}
    /\ recibidos = 0
    /\ pendientes = {}
    /\ enCurso = {}
    /\ ligados = [id \in Ids |-> {}]
    /\ exitos = Vacia
    /\ ultima = Evento("init", None, 0, None, 0, <<>>)

\* absent value (Python None) of a lead field
Ausente == <<"None">>
\* self.sheet is None: the sheet could not be opened
NoSheet == <<"NoSheet">>
SinPeticion == [empresa |-> Ausente, nombre |-> Ausente, email |-> Ausente,
                telefono |-> Ausente, mensaje |-> Ausente]
SinRespuesta == [st |-> 0, errores |-> {}, fila |-> <<>>, detail |-> "", leads |-> <<>>]

\* no lead request has arrived
SinLeads ==
    /\ appends = 0
    /\ peticion = SinPeticion
    /\ respuesta = SinRespuesta

Init ==
    /\ InitChat
    /\ texto = SinTexto
    /\ sheet = NoSheet
    /\ SinLeads

\* ------------------------------------------------- obtener_o_crear_sesion
\* chat.py:51-81.  u is the value uuid4 returns when it is called.  The
\* result carries the returned pair and the registry after the call.
\* variant: the lookup `session_id not in sesiones` is skipped
obtener_o_crear_sesion_sin_busqueda(session_id, u) ==
    LET id == IF Falsy(session_id) THEN u ELSE session_id
    IN [session_id |-> id,
        agente |-> nextAgente,
        creada |-> TRUE,
        sesiones |-> Poner(sesiones, id, nextAgente),
        agentes |-> Poner(agentes, nextAgente, AgenteNuevo),
        emitidos |-> IF Falsy(session_id) THEN emitidos \cup {u} ELSE emitidos]

\* variant: every session shares the first AgenteGemini object
obtener_o_crear_sesion_agente_comun(session_id, u) ==
    LET id == IF Falsy(session_id) THEN u ELSE session_id
        crea == id \notin DOMAIN sesiones
        ref == IF 1 \in DOMAIN agentes THEN 1 ELSE nextAgente
    IN [session_id |-> id,
        agente |-> IF crea THEN ref ELSE sesiones[id],
        creada |-> crea,
        sesiones |-> IF crea THEN Poner(sesiones, id, ref) ELSE sesiones,
        agentes |-> IF crea /\ ref \notin DOMAIN agentes
                       THEN Poner(agentes, ref, AgenteNuevo) ELSE agentes,
        emitidos |-> IF Falsy(session_id) THEN emitidos \cup {u} ELSE emitidos]

\* variant: an identifier that is not registered is replaced by a new uuid
obtener_o_crear_sesion_acuna(session_id, u) ==
    LET mint == Falsy(session_id) \/ session_id \notin DOMAIN sesiones
        id == IF mint THEN CHOOSE x \in Uuid4 : TRUE ELSE session_id
        crea == id \notin DOMAIN sesiones
    IN [session_id |-> id,
        agente |-> IF crea THEN nextAgente ELSE sesiones[id],
        creada |-> crea,
        sesiones |-> IF crea THEN Poner(sesiones, id, nextAgente) ELSE sesiones,
        agentes |-> IF crea THEN Poner(agentes, nextAgente, AgenteNuevo)
                            ELSE agentes,
        emitidos |-> IF mint THEN emitidos \cup {id} ELSE emitidos]

\* variant: the registry holds one session; a new one evicts the others
obtener_o_crear_sesion_desaloja(session_id, u) ==
    LET id == IF Falsy(session_id) THEN u ELSE session_id
        crea == id \notin DOMAIN sesiones
    IN [session_id |-> id,
        agente |-> IF crea THEN nextAgente ELSE sesiones[id],
        creada |-> crea,
        sesiones |-> IF crea THEN Poner(Vacia, id, nextAgente) ELSE sesiones,
        agentes |-> IF crea THEN Poner(agentes, nextAgente, AgenteNuevo)
                            ELSE agentes,
        emitidos |-> IF Falsy(session_id) THEN emitidos \cup {u} ELSE emitidos]

obtener_o_crear_sesion(session_id, u) ==
    LET id == IF Falsy(session_id) THEN u ELSE session_id
        crea == id \notin DOMAIN sesiones
    IN [session_id |-> id,
        agente |-> IF crea THEN nextAgente ELSE sesiones[id],
        creada |-> crea,
        sesiones |-> IF crea THEN Poner(sesiones, id, nextAgente) ELSE sesiones,
        agentes |-> IF crea THEN Poner(agentes, nextAgente, AgenteNuevo)
                            ELSE agentes,
        emitidos |-> IF Falsy(session_id) THEN emitidos \cup {u} ELSE emitidos]

\* ------------------------------------------------ AgenteGemini.enviar_mensaje
\* agente_gemini.py:421-449.  `enviado` is the conversation handed to the
\* provider (history so far plus the user turn); res is what the provider
\* does: "ok"; or send_message (line 435) raises one of Errores, and the
\* chat is as it was; or send_message returns a reply that holds no text
\* part, and reading response.text (line 437) raises one of ErroresTexto
\* after the chat took the exchange into its history.
\* On success the chat history becomes the conversation sent plus the model
\* turn and total_mensajes grows by one; on an exception the except branch
\* returns the error text as an ordinary return value.
\* variant: the counter update of line 440 is missing
enviar_mensaje_agente_sin_contar(ag, enviado, m, res) ==
    IF res = "ok"
    THEN [agente |-> [total_mensajes |-> ag.total_mensajes,
                      history |-> Append(enviado, ModelTurn(m))],
          retorno |-> <<"respuesta", m>>,
          lanza |-> FALSE]
    ELSE IF res \in ErroresTexto
    THEN [agente |-> [ag EXCEPT !.history = Append(enviado, ModelTurnSinTexto)],
          retorno |-> <<"error", res>>,
          lanza |-> FALSE]
    ELSE [agente |-> ag,
          retorno |-> <<"error", res>>,
          lanza |-> FALSE]

enviar_mensaje_agente(ag, enviado, m, res) ==
    IF res = "ok"
    THEN [agente |-> [total_mensajes |-> ag.total_mensajes + 1,
                      history |-> Append(enviado, ModelTurn(m))],
          retorno |-> <<"respuesta", m>>,
          lanza |-> FALSE]
    ELSE IF res \in ErroresTexto
    THEN [agente |-> [ag EXCEPT !.history = Append(enviado, ModelTurnSinTexto)],
          retorno |-> <<"error", res>>,
          lanza |-> FALSE]
    ELSE [agente |-> ag,
          retorno |-> <<"error", res>>,
          lanza |-> FALSE]

\* AgenteGemini.obtener_estadisticas, agente_gemini.py:451-457
obtener_estadisticas_agente(ag) ==
    [total_mensajes |-> ag.total_mensajes,
     mensajes_en_historial |-> Len(ag.history),
     costo_total |-> 0]

\* AgenteGemini.limpiar_historial, agente_gemini.py:459-462
\* variant: clearing also resets the metadata
limpiar_historial_agente_reinicia(ag) ==
    AgenteNuevo

limpiar_historial_agente(ag) ==
    [ag EXCEPT !.history = <<>>]

\* --------------------------------------------------------------- requests
\* MensajeRequest.mensaje, schemas.py:43-49: min_length=1, max_length=2000
\* variant: the max_length constraint is missing
MensajeValido_sin_maximo(m) == Largo(m) >= MinLenMensaje

MensajeValido(m) == Largo(m) >= MinLenMensaje /\ Largo(m) <= MaxLenMensaje

\* A POST /chat/message request with a valid body reaches the server.
LlegaMensaje(sid, m) ==
    /\ MensajeValido(m)
    /\ Cardinality(pendientes) < MaxPend
    /\ sid \in {None, Vacio} \cup IdsCliente \cup emitidos
    /\ recibidos < MaxEnvios
    /\ recibidos' = recibidos + 1
    /\ [sid |-> sid, mensaje |-> m] \notin pendientes
    /\ pendientes' = pendientes \cup {[sid |-> sid, mensaje |-> m]}
    /\ ultima' = Evento("llegada", None, 0, None, 0, <<>>)
    /\ UNCHANGED <<sesiones, agentes, nextAgente, emitidos, enCurso,
                   ligados, exitos>>
    /\ UNCHANGED <<texto, leadVars>>

\* A POST /chat/message request whose body fails the schema is answered 422
\* by the framework; enviar_mensaje is not called.
RechazaMensaje(sid, m) ==
    /\ ~MensajeValido(m)
    /\ sid \in {None, Vacio} \cup IdsCliente \cup emitidos
    /\ ultima' = Evento("message", None, 422, None, 0, <<"mensaje", m>>)
    /\ UNCHANGED <<sesiones, agentes, nextAgente, emitidos, recibidos,
                   pendientes, enCurso, ligados, exitos>>
    /\ UNCHANGED <<texto, leadVars>>

\* chat.py:95 and :150.  The handler is a coroutine that calls the blocking
\* agente.enviar_mensaje without awaiting anything: the event loop starts no
\* other handler while one is inside the provider call.
\* variant: the provider call is awaited, other handlers run meanwhile
LoopLibre_con_await == TRUE

LoopLibre == enCurso = {}

\* the handler of the pending request r can start now
PuedeIniciar(r) == r \in pendientes /\ LoopLibre

\* chat.py:140-150 up to the provider call of agente_gemini.py:435
IniciaMensaje(r, u) ==
    /\ PuedeIniciar(r)
    /\ IF Falsy(r.sid) THEN u \in Uuid4 ELSE u = None
    /\ LET s == obtener_o_crear_sesion(r.sid, u) IN
        /\ sesiones' = s.sesiones
        /\ agentes' = s.agentes
        /\ emitidos' = s.emitidos
        /\ nextAgente' = IF s.creada THEN nextAgente + 1 ELSE nextAgente
        /\ exitos' = IF s.creada THEN Poner(exitos, s.agente, 0) ELSE exitos
        /\ ligados' = [ligados EXCEPT ![s.session_id] = @ \cup {s.agente}]
        /\ enCurso' = enCurso \cup
              {[sid |-> r.sid, mensaje |-> r.mensaje,
                session_id |-> s.session_id, agente |-> s.agente,
                enviado |-> Append(s.agentes[s.agente].history,
                                   UserTurn(r.mensaje))]}
        /\ ultima' = Evento("inicio", r.sid, 0, s.session_id, s.agente,
                            s.creada)
    /\ pendientes' = pendientes \ {r}
    /\ recibidos' = recibidos
    /\ UNCHANGED <<texto, leadVars>>

\* The provider call of q returns or raises; chat.py:150-173 finishes.  An
\* agent no longer in the registry is unreachable once its handler returns.
\* chat.py:155-173: what the client of request q gets when the agent call
\* gave e
RespuestaMensaje(q, e) ==
    IF e.lanza
    THEN Evento("message", q.sid, 500, None, q.agente,
                <<"detail", e.retorno[2]>>)
    ELSE Evento("message", q.sid, 200, q.session_id, q.agente, e.retorno)

ProveedorResponde(q, res) ==
    /\ q \in enCurso
    /\ LET viva == q.agente \in DOMAIN agentes
           e == enviar_mensaje_agente(
                    IF viva THEN agentes[q.agente] ELSE AgenteNuevo,
                    q.enviado, q.mensaje, res)
       IN /\ agentes' = IF viva THEN [agentes EXCEPT ![q.agente] = e.agente]
                                ELSE agentes
          /\ exitos' = IF viva /\ res = "ok"
                          THEN [exitos EXCEPT ![q.agente] = @ + 1]
                          ELSE exitos
          /\ ultima' = RespuestaMensaje(q, e)
    /\ enCurso' = enCurso \ {q}
    /\ UNCHANGED <<sesiones, nextAgente, emitidos, recibidos, pendientes,
                   ligados>>
    /\ UNCHANGED <<texto, leadVars>>

\* GET /chat/stats/{session_id}, chat.py:185-222
obtener_estadisticas(session_id) ==
    /\ LoopLibre
    /\ ultima' = IF session_id \notin DOMAIN sesiones
          THEN Evento("stats", session_id, 404, None, 0, <<>>)
          ELSE Evento("stats", session_id, 200, session_id,
                      sesiones[session_id],
                      obtener_estadisticas_agente(agentes[sesiones[session_id]]))
    /\ UNCHANGED <<sesiones, agentes, nextAgente, emitidos, recibidos, pendientes,
                   enCurso, ligados, exitos>>
    /\ UNCHANGED <<texto, leadVars>>

\* DELETE /chat/clear/{session_id}, chat.py:233-267
\* variant: the `not in sesiones` check is missing and the session is made
limpiar_historial_sin_404(session_id) ==
    /\ LoopLibre
    /\ LET s == obtener_o_crear_sesion(session_id, None) IN
        /\ ultima' = Evento("clear", session_id, 200, session_id, s.agente, <<>>)
        /\ sesiones' = s.sesiones
        /\ agentes' = [s.agentes EXCEPT ![s.agente] = limpiar_historial_agente(@)]
        /\ nextAgente' = IF s.creada THEN nextAgente + 1 ELSE nextAgente
        /\ exitos' = IF s.creada THEN Poner(exitos, s.agente, 0) ELSE exitos
    /\ UNCHANGED <<emitidos, recibidos, pendientes, enCurso, ligados>>
    /\ UNCHANGED <<texto, leadVars>>

\* variant: the clear empties the history of every registered session
limpiar_historial_de_todas(session_id) ==
    /\ LoopLibre
    /\ IF session_id \notin DOMAIN sesiones
          THEN /\ ultima' = Evento("clear", session_id, 404, None, 0, <<>>)
               /\ agentes' = agentes
          ELSE /\ ultima' = Evento("clear", session_id, 200, session_id,
                                   sesiones[session_id], <<>>)
               /\ agentes' = [a \in DOMAIN agentes |->
                                 limpiar_historial_agente(agentes[a])]
    /\ UNCHANGED <<sesiones, nextAgente, emitidos, recibidos, pendientes, enCurso,
                   ligados, exitos>>
    /\ UNCHANGED <<texto, leadVars>>

limpiar_historial(session_id) ==
    /\ LoopLibre
    /\ IF session_id \notin DOMAIN sesiones
          THEN /\ ultima' = Evento("clear", session_id, 404, None, 0, <<>>)
               /\ agentes' = agentes
          ELSE /\ ultima' = Evento("clear", session_id, 200, session_id,
                                   sesiones[session_id], <<>>)
               /\ agentes' = [agentes EXCEPT ![sesiones[session_id]] =
                                 limpiar_historial_agente(@)]
    /\ UNCHANGED <<sesiones, nextAgente, emitidos, recibidos, pendientes, enCurso,
                   ligados, exitos>>
    /\ UNCHANGED <<texto, leadVars>>

\* GET /chat/sessions, chat.py:275-302
\* variant: total counts every agent ever constructed
listar_sesiones_cuenta_creados ==
    /\ LoopLibre
    /\ ultima' = Evento("sessions", None, 200, None, 0,
                        [total |-> nextAgente - 1,
                         sesiones |-> DOMAIN sesiones])
    /\ UNCHANGED <<sesiones, agentes, nextAgente, emitidos, recibidos, pendientes,
                   enCurso, ligados, exitos>>
    /\ UNCHANGED <<texto, leadVars>>

listar_sesiones ==
    /\ LoopLibre
    /\ ultima' = Evento("sessions", None, 200, None, 0,
                        [total |-> Cardinality(DOMAIN sesiones),
                         sesiones |-> DOMAIN sesiones])
    /\ UNCHANGED <<sesiones, agentes, nextAgente, emitidos, recibidos, pendientes,
                   enCurso, ligados, exitos>>
    /\ UNCHANGED <<texto, leadVars>>

\* variant: the delete empties the registry (sesiones.clear())
eliminar_sesion_todas(session_id) ==
    /\ LoopLibre
    /\ IF session_id \notin DOMAIN sesiones
          THEN /\ ultima' = Evento("delete", session_id, 404, None, 0, <<>>)
               /\ UNCHANGED <<sesiones, agentes, exitos>>
          ELSE /\ ultima' = Evento("delete", session_id, 200, session_id,
                                   sesiones[session_id], <<>>)
               /\ sesiones' = Vacia
               /\ agentes' = Vacia
               /\ exitos' = Vacia
    /\ UNCHANGED <<nextAgente, emitidos, recibidos, pendientes, enCurso, ligados>>
    /\ UNCHANGED <<texto, leadVars>>

\* DELETE /chat/sessions/{session_id}, chat.py:313-348
eliminar_sesion(session_id) ==
    /\ LoopLibre
    /\ IF session_id \notin DOMAIN sesiones
          THEN /\ ultima' = Evento("delete", session_id, 404, None, 0, <<>>)
               /\ UNCHANGED <<sesiones, agentes, exitos>>
          ELSE /\ ultima' = Evento("delete", session_id, 200, session_id,
                                   sesiones[session_id], <<>>)
               /\ sesiones' = Quitar(sesiones, session_id)
               /\ agentes' = Quitar(agentes, sesiones[session_id])
               /\ exitos' = Quitar(exitos, sesiones[session_id])
    /\ UNCHANGED <<nextAgente, emitidos, recibidos, pendientes, enCurso, ligados>>
    /\ UNCHANGED <<texto, leadVars>>

\* identifiers a client can put in the path of a request
IdsRuta == IdsCliente \cup emitidos

Next ==
    \/ \E sid \in {None, Vacio} \cup Ids, m \in Mensajes \cup MensajesInvalidos :
          LlegaMensaje(sid, m)
    \/ \E sid \in {None} \cup IdsCliente, m \in Mensajes \cup MensajesInvalidos :
          RechazaMensaje(sid, m)
    \/ \E r \in pendientes, u \in IdsUuid \cup {None} : IniciaMensaje(r, u)
    \/ \E q \in enCurso, res \in {"ok"} \cup Errores \cup ErroresTexto :
          ProveedorResponde(q, res)
    \/ \E sid \in IdsRuta : obtener_estadisticas(sid)
    \/ \E sid \in IdsRuta : limpiar_historial(sid)
    \/ listar_sesiones
    \/ \E sid \in IdsRuta : eliminar_sesion(sid)

Spec == Init /\ [][Next]_vars


\* ======================================================== sanitizar_texto
\* Texts are sequences of characters.  "a" stands for any letter; the other
\* letters appear only in the entities bleach writes.
Caracteres ==
    {"<", ">", "/", "&", "'", "\"", ";", "-", ",", "(", "+", " ", "a"}
Letras == {"a", "l", "t", "g", "m", "p"}

RECURSIVE TextosDe(_)
TextosDe(n) ==
    IF n = 0 THEN {<<>>}
    ELSE LET cortos == TextosDe(n - 1)
         IN cortos \cup {Append(t, c) : t \in {u \in cortos : Len(u) = n - 1},
                                        c \in Caracteres}
Textos == TextosDe(MaxTexto)

\* the characters of t, from position i on, that satisfy Queda
RECURSIVE Filtra(_, _, _)
Filtra(t, i, Fuera) ==
    IF i > Len(t) THEN <<>>
    ELSE IF t[i] \in Fuera THEN Filtra(t, i + 1, Fuera)
         ELSE <<t[i]>> \o Filtra(t, i + 1, Fuera)

\* bleach.clean(texto, tags=[], strip=True), sanitize.py:49: an HTML
\* tokenizer; every tag and comment is dropped, its content kept, and the
\* text is written back with &, < and > escaped as entities.
EntidadAmp == <<"&", "a", "m", "p", ";">>
EntidadLt == <<"&", "l", "t", ";">>
EntidadGt == <<"&", "g", "t", ";">>

EmpiezaCon(t, i, pre) ==
    /\ i + Len(pre) - 1 <= Len(t)
    /\ \A k \in 1..Len(pre) : t[i + k - 1] = pre[k]

EsEntidad(t, i) ==
    \E ent \in {EntidadAmp, EntidadLt, EntidadGt} : EmpiezaCon(t, i, ent)

HayCierre(t, i) == \E j \in i..Len(t) : t[j] = ">"
Cierre(t, i) ==
    CHOOSE j \in i..Len(t) :
        t[j] = ">" /\ \A k \in i..(j - 1) : t[k] # ">"

Escapa(c) ==
    CASE c = "&" -> EntidadAmp
      [] c = "<" -> EntidadLt
      [] c = ">" -> EntidadGt
      [] OTHER -> <<c>>

\* a tag cut short by the end of the text is written back as text
RECURSIVE EscapaTodo(_, _)
EscapaTodo(t, i) ==
    IF i > Len(t) THEN <<>>
    ELSE (IF t[i] = "&" /\ EsEntidad(t, i) THEN <<"&">> ELSE Escapa(t[i]))
         \o EscapaTodo(t, i + 1)

RECURSIVE Limpia(_, _)
Limpia(t, i) ==
    IF i > Len(t) THEN <<>>
    ELSE IF t[i] = "<" /\ i < Len(t) /\ t[i + 1] \in Letras
    THEN \* start tag
         IF HayCierre(t, i + 1) THEN Limpia(t, Cierre(t, i + 1) + 1)
                                ELSE EscapaTodo(t, i)
    ELSE IF t[i] = "<" /\ i < Len(t) /\ t[i + 1] = "/"
    THEN IF i + 1 = Len(t) THEN EscapaTodo(t, i)
         ELSE IF t[i + 2] \in Letras
         THEN \* end tag
              IF HayCierre(t, i + 2) THEN Limpia(t, Cierre(t, i + 2) + 1)
                                     ELSE EscapaTodo(t, i)
         ELSE \* "</>" and bogus comments
              IF HayCierre(t, i + 2) THEN Limpia(t, Cierre(t, i + 2) + 1)
                                     ELSE <<>>
    ELSE IF t[i] = "&" /\ EsEntidad(t, i)
    THEN <<"&">> \o Limpia(t, i + 1)
    ELSE Escapa(t[i]) \o Limpia(t, i + 1)

BleachClean(t) == Limpia(t, 1)

\* re.sub(r'[<>]', '', limpio), sanitize.py:53
QuitaAngulos(t) == Filtra(t, 1, {"<", ">"})

\* re.sub(r"[';\"--]", '', limpio), sanitize.py:57.  Inside the brackets
\* `"--` is a range: from the double quote (0x22) to the hyphen (0x2D), that
\* is  " # $ % & ' ( ) * + , -
ClaseSQL == {"'", ";"} \cup {"\"", "#", "$", "%", "&", "'", "(", ")", "*", "+", ",", "-"}
QuitaSQL(t) == Filtra(t, 1, ClaseSQL)

\* str.strip(): drop leading and trailing whitespace
RECURSIVE Strip(_)
Strip(t) ==
    IF t = <<>> THEN t
    ELSE IF Head(t) = " " THEN Strip(Tail(t))
    ELSE IF t[Len(t)] = " " THEN Strip(SubSeq(t, 1, Len(t) - 1))
    ELSE t

\* variant: the whitespace is stripped before the characters are removed
sanitizar_texto_strip_antes(t) ==
    IF t = <<>> THEN t
    ELSE QuitaSQL(QuitaAngulos(Strip(BleachClean(t))))

\* sanitizar_texto, sanitize.py:20-60
sanitizar_texto(t) ==
    IF t = <<>> THEN t
    ELSE Strip(QuitaSQL(QuitaAngulos(BleachClean(t))))

\* A text is sanitized, and the result is sanitized again.
Sanitiza ==
    /\ texto.paso = 0
    /\ texto' = [texto EXCEPT !.paso = 1, !.y = sanitizar_texto(texto.x)]
    /\ UNCHANGED <<chatVars, leadVars>>

Resanitiza ==
    /\ texto.paso = 1
    /\ texto' = [texto EXCEPT !.paso = 2, !.yy = sanitizar_texto(texto.y)]
    /\ UNCHANGED <<chatVars, leadVars>>

InitTexto ==
    /\ InitChat
    /\ sheet = NoSheet
    /\ SinLeads
    /\ \E x \in Textos : texto = [paso |-> 0, x |-> x, y |-> <<>>, yy |-> <<>>]

NextTexto == Sanitiza \/ Resanitiza

SpecTexto == InitTexto /\ [][NextTexto]_vars


\* ================================================================== leads
\* Field values are texts (sequences of characters) or Ausente.
MinLenEmpresa == 2
MaxLenEmpresa == 100
MinLenNombre == 2
MaxLenNombre == 100
MinLenTelefono == 10
MaxLenTelefono == 10
MaxLenMensajeLead == 500
DigitosTelefono == 10

Digitos == {"0", "1", "2", "3", "4", "5", "6", "7", "8", "9"}

\* a validator raised ValueError, or a Field constraint failed
Invalido == <<"ValueError">>

Empresas ==
    { Ausente, <<>>, <<" ">>, <<" ", " ", " ">>, <<"a">>, <<"a", "a">>,
      <<"a", "-">>, <<"<", "a", ">", "a", "a">> }
Nombres == { <<"a", "a">>, <<" ", " ">>, <<"a", "-">> }
Emails ==
    { <<"a", "@", "a", ".", "a">>, <<" ", "A", "@", "A", ".", "a", " ">>,
      <<"a">>, <<"a", " ", "@", "a", ".", "a">> }
Telefonos ==
    { Ausente, <<>>,
      <<"3", "0", "0", "1", "2", "3", "4", "5", "6", "7">>,
      <<"3", "0", "0", "-", "1", "2", "3", "-", "4", "5", "6", "7">>,
      <<"1", "2", "3", "-", "4", "5", "6", "-", "7", "8", "9", "0">>,
      <<"1", "2", "3", "4", "5">>,
      <<"1", "2", "3", "4", "5", "6", "7", "8", "9", "0">>,
      <<"3", "0", "0", "-", "1", "2", "3", "4", "5", "6">> }
MensajesLead == { Ausente, <<"a">>, <<"<", "a", ">">> }

\* The request bodies: a body that validates, with up to two of its fields
\* replaced by any of the values above.
CuerpoBase ==
    [empresa |-> <<"a", "a">>, nombre |-> <<"a", "a">>,
     email |-> <<"a", "@", "a", ".", "a">>, telefono |-> Ausente,
     mensaje |-> Ausente]
MaxCambios == 2
Cuerpos ==
    { b \in [empresa : Empresas, nombre : Nombres, email : Emails,
             telefono : Telefonos, mensaje : MensajesLead] :
        Cardinality({c \in DOMAIN b : b[c] # CuerpoBase[c]}) <= MaxCambios }

\* Field(..., min_length, max_length) of a str field
Longitud(v, min, max) == Len(v) >= min /\ Len(v) <= max

\* variant: the value is sanitized and returned without any check
validar_empresa_solo_sanitiza(v) == sanitizar_texto(v)

\* LeadCreate.validar_empresa, lead.py:96-126
validar_empresa(v) ==
    IF Strip(v) = <<>> THEN Invalido
    ELSE LET sanitizado == sanitizar_texto(v)
         IN IF Len(sanitizado) < 2 THEN Invalido ELSE sanitizado

\* variant: the length of the sanitized name is not checked
validar_nombre_sin_minimo(v) ==
    IF Strip(v) = <<>> THEN Invalido ELSE sanitizar_texto(v)

\* LeadCreate.validar_nombre, lead.py:129-144
validar_nombre(v) ==
    IF Strip(v) = <<>> THEN Invalido
    ELSE LET sanitizado == sanitizar_texto(v)
         IN IF Len(sanitizado) < 2 THEN Invalido ELSE sanitizado

\* the address checker behind EmailStr: local@domain with a dotted domain
\* and no blanks
EmailValido(v) ==
    /\ Cardinality({i \in 1..Len(v) : v[i] = "@"}) = 1
    /\ \A i \in 1..Len(v) : v[i] # " "
    /\ LET at == CHOOSE i \in 1..Len(v) : v[i] = "@"
       IN /\ at > 1
          /\ \E i \in (at + 2)..(Len(v) - 1) : v[i] = "."

Minuscula(c) == IF c = "A" THEN "a" ELSE c

\* EmailStr, lead.py:72: the value is stripped and then checked
EmailStr(v) == EmailValido(Strip(v))

\* what EmailStr hands to the validators: the stripped address, its local
\* part as written and its domain in lower case
EmailNormalizado(v) ==
    LET email == Strip(v)
        at == CHOOSE i \in 1..Len(email) : email[i] = "@"
    IN [i \in 1..Len(email) |->
            IF i < at THEN email[i] ELSE Minuscula(email[i])]

\* variant: blanks are removed, the case is kept
sanitizar_email_sin_minusculas(v) ==
    IF v = <<>> THEN v ELSE Filtra(v, 1, {" "})

\* sanitizar_email, sanitize.py:63-91
sanitizar_email(v) ==
    IF v = <<>> THEN v
    ELSE Filtra([i \in 1..Len(v) |-> Minuscula(v[i])], 1, {" "})

\* LeadCreate.validar_email, lead.py:147-165
validar_email(v) == sanitizar_email(v)

\* sanitizar_telefono, sanitize.py:94-125
sanitizar_telefono(telefono) ==
    IF telefono = Ausente \/ telefono = <<>> THEN Ausente
    ELSE LET limpio == SelectSeq(telefono, LAMBDA c : c \in Digitos)
         IN IF Len(limpio) # DigitosTelefono THEN Ausente ELSE limpio

\* variant: any ten digits are accepted
validar_telefono_sin_prefijo(v) ==
    IF v = Ausente \/ v = <<>> THEN Ausente
    ELSE LET sanitizado == sanitizar_telefono(v)
         IN IF sanitizado = Ausente \/ Len(sanitizado) # 10 THEN Invalido
            ELSE sanitizado

\* LeadCreate.validar_telefono, lead.py:168-202
validar_telefono(v) ==
    IF v = Ausente \/ v = <<>> THEN Ausente
    ELSE LET sanitizado == sanitizar_telefono(v)
         IN IF sanitizado = Ausente \/ Len(sanitizado) # 10 THEN Invalido
            ELSE IF sanitizado[1] # "3" THEN Invalido
            ELSE sanitizado

\* variant: an empty sanitized message is returned as it is
validar_mensaje_sin_vacio(v) ==
    IF v = Ausente \/ v = <<>> THEN Ausente ELSE sanitizar_texto(v)

\* LeadCreate.validar_mensaje, lead.py:205-231
validar_mensaje(v) ==
    IF v = Ausente \/ v = <<>> THEN Ausente
    ELSE LET sanitizado == sanitizar_texto(v)
         IN IF sanitizado = <<>> THEN Ausente ELSE sanitizado

\* One field of LeadCreate: the Field constraints are checked on the value
\* received, and the validator runs only on a value that passed them.
CampoEmpresa(v) ==
    IF v = Ausente \/ ~Longitud(v, MinLenEmpresa, MaxLenEmpresa) THEN Invalido
    ELSE validar_empresa(v)
CampoNombre(v) ==
    IF v = Ausente \/ ~Longitud(v, MinLenNombre, MaxLenNombre) THEN Invalido
    ELSE validar_nombre(v)
CampoEmail(v) ==
    IF v = Ausente \/ ~EmailStr(v) THEN Invalido
    ELSE validar_email(EmailNormalizado(v))
CampoTelefono(v) ==
    IF v = Ausente THEN Ausente
    ELSE IF ~Longitud(v, MinLenTelefono, MaxLenTelefono) THEN Invalido
    ELSE validar_telefono(v)
CampoMensaje(v) ==
    IF v = Ausente THEN Ausente
    ELSE IF ~Longitud(v, 0, MaxLenMensajeLead) THEN Invalido
    ELSE validar_mensaje(v)

\* LeadCreate(**body), lead.py:29-247: the validated fields and the names of
\* the fields in error
LeadCreate(b) ==
    LET campos == [empresa |-> CampoEmpresa(b.empresa),
                   nombre |-> CampoNombre(b.nombre),
                   email |-> CampoEmail(b.email),
                   telefono |-> CampoTelefono(b.telefono),
                   mensaje |-> CampoMensaje(b.mensaje)]
    IN [lead |-> campos,
        errores |-> {c \in DOMAIN campos : campos[c] = Invalido}]

\* the row [ID, Empresa, Nombre, Email, Telefono, Mensaje, Fecha, Estado]
IdLead(n) == <<"uuid", ToString(n)>>
Fila(lead_data) ==
    <<lead_data.id, lead_data.empresa, lead_data.nombre, lead_data.email,
      lead_data.telefono, lead_data.mensaje, lead_data.fecha_creacion,
      lead_data.estado>>
ColEmpresa == 2
ColNombre == 3
ColEmail == 4
ColTelefono == 5
ColMensaje == 6

\* what append_row raises when the call to the provider fails
ErroresAppend == {"APIError", "ConnectionError"}

\* variant: a failed append_row is tried once more, and then succeeds
guardar_lead_reintenta(hoja, lead_data, res) ==
    IF hoja = NoSheet
    THEN [sheet |-> hoja, appends |-> 0, lanza |-> TRUE,
          excepcion |-> [tipo |-> "Exception", mensaje |-> "no configurado"]]
    ELSE [sheet |-> Append(hoja, Fila(lead_data)),
          appends |-> IF res = "ok" THEN 1 ELSE 2, lanza |-> FALSE,
          excepcion |-> [tipo |-> "", mensaje |-> ""]]

\* SheetsService.guardar_lead, sheets.py:174-219.  res is what append_row
\* does: "ok", or the exception it raises.
guardar_lead(hoja, lead_data, res) ==
    IF hoja = NoSheet
    THEN [sheet |-> hoja, appends |-> 0, lanza |-> TRUE,
          excepcion |-> [tipo |-> "Exception", mensaje |-> "no configurado"]]
    ELSE IF res = "ok"
    THEN [sheet |-> Append(hoja, Fila(lead_data)), appends |-> 1, lanza |-> FALSE,
          excepcion |-> [tipo |-> "", mensaje |-> ""]]
    ELSE [sheet |-> hoja, appends |-> 1, lanza |-> TRUE,
          excepcion |-> [tipo |-> res, mensaje |-> "append_row"]]

\* leads.py:94-103: the record crear_lead builds from the validated body v;
\* n numbers the identifier uuid4 returns
DatosLead(v, n) ==
    [id |-> IdLead(n),
     empresa |-> v.lead.empresa,
     nombre |-> v.lead.nombre,
     email |-> v.lead.email,
     telefono |-> v.lead.telefono,
     mensaje |-> v.lead.mensaje,
     fecha_creacion |-> <<"fecha">>,
     estado |-> <<"nuevo">>]

\* leads.py:106-133: what crear_lead answers when guardar_lead gave g; the
\* except branch answers every exception with one fixed text
RespuestaCrear(g, lead_data) ==
    IF g.lanza
    THEN [st |-> 500, errores |-> {}, fila |-> <<>>,
          detail |-> "Error al procesar la solicitud. Por favor, intenta de nuevo.",
          leads |-> <<>>]
    ELSE [st |-> 201, errores |-> {}, fila |-> Fila(lead_data), detail |-> "",
          leads |-> <<>>]

PeticionPendiente == peticion # SinPeticion /\ respuesta = SinRespuesta

\* A POST /api/leads request arrives.  The handler has no await, so the
\* requests are served one after the other.
LlegaLead(b) ==
    /\ ~PeticionPendiente
    /\ appends < MaxFilas
    /\ b # SinPeticion
    /\ peticion' = b
    /\ respuesta' = SinRespuesta
    /\ UNCHANGED <<chatVars, texto, sheet, appends>>

\* The body does not validate: 422 before crear_lead is called.
RechazaLead ==
    /\ PeticionPendiente
    /\ LET v == LeadCreate(peticion)
       IN /\ v.errores # {}
          /\ respuesta' = [st |-> 422, errores |-> v.errores, fila |-> <<>>,
                            detail |-> "", leads |-> <<>>]
    /\ UNCHANGED <<chatVars, texto, sheet, appends, peticion>>

\* crear_lead, leads.py:41-133
crear_lead(res) ==
    /\ PeticionPendiente
    /\ LET v == LeadCreate(peticion)
           lead_data == DatosLead(v, appends + 1)
           g == guardar_lead(sheet, lead_data, res)
       IN /\ v.errores = {}
          /\ sheet' = g.sheet
          /\ appends' = appends + g.appends
          /\ respuesta' = RespuestaCrear(g, lead_data)
    /\ UNCHANGED <<chatVars, texto, peticion>>

\* The worksheet was prepared with a header row; the rows the service
\* appends come below it.
Encabezado ==
    << <<"ID">>, <<"Empresa">>, <<"Nombre">>, <<"Email">>, <<"Telefono">>,
       <<"Mensaje">>, <<"Fecha">>, <<"Estado">> >>

\* a cell written as None is read back as the empty string
Celda(v) == IF v = Ausente THEN <<>> ELSE v

\* self.sheet.get_all_values(), sheets.py:235
get_all_values(hoja) ==
    <<Encabezado>> \o
        [i \in 1..Len(hoja) |-> [j \in 1..Len(hoja[i]) |-> Celda(hoja[i][j])]]

Min(a, b) == IF a < b THEN a ELSE b
Max(a, b) == IF a > b THEN a ELSE b

\* the Python slice s[desde:hasta] (0-based, hasta excluded) for desde >= 0;
\* a negative hasta counts from the end
Rebanada(s, desde, hasta) ==
    LET fin == IF hasta < 0 THEN Max(Len(s) + hasta, 0) ELSE Min(hasta, Len(s))
    IN IF fin <= desde THEN <<>> ELSE SubSeq(s, desde + 1, fin)

\* sheets.py:244-253: the record read from one row, short rows padded
LeadDeFila(row) ==
    [id |-> IF Len(row) > 0 THEN row[1] ELSE <<>>,
     empresa |-> IF Len(row) > 1 THEN row[2] ELSE <<>>,
     nombre |-> IF Len(row) > 2 THEN row[3] ELSE <<>>,
     email |-> IF Len(row) > 3 THEN row[4] ELSE <<>>,
     telefono |-> IF Len(row) > 4 THEN row[5] ELSE <<>>,
     mensaje |-> IF Len(row) > 5 THEN row[6] ELSE <<>>,
     fecha_creacion |-> IF Len(row) > 6 THEN row[7] ELSE <<>>,
     estado |-> IF Len(row) > 7 THEN row[8] ELSE <<"nuevo">>]

\* variant: the slice starts at the first row of the sheet
SheetsService_obtener_leads_desde_cero(hoja, limit) ==
    IF hoja = NoSheet THEN [lanza |-> TRUE, leads |-> <<>>]
    ELSE LET rows == get_all_values(hoja)
             data_rows == IF Len(rows) > 1 THEN Rebanada(rows, 0, limit)
                                           ELSE <<>>
         IN [lanza |-> FALSE,
             leads |-> [i \in 1..Len(data_rows) |-> LeadDeFila(data_rows[i])]]

\* SheetsService.obtener_leads, sheets.py:221-261.  With self.sheet None the
\* call of get_all_values raises AttributeError.
SheetsService_obtener_leads(hoja, limit) ==
    IF hoja = NoSheet THEN [lanza |-> TRUE, leads |-> <<>>]
    ELSE LET rows == get_all_values(hoja)
             data_rows == IF Len(rows) > 1 THEN Rebanada(rows, 1, limit + 1)
                                           ELSE <<>>
         IN [lanza |-> FALSE,
             leads |-> [i \in 1..Len(data_rows) |-> LeadDeFila(data_rows[i])]]

\* datetime.fromisoformat accepts the text, leads.py:168
EsFechaISO(v) == v = <<"fecha">>

\* LeadResponse(...) of leads.py:161-170 can be built from the record: its
\* date parses and its email passes EmailStr
LeadResponseValido(data) ==
    EsFechaISO(data.fecha_creacion) /\ EmailStr(data.email)

\* obtener_leads, leads.py:142-181 (GET /api/leads?limit=N)
obtener_leads(limit) ==
    /\ ~PeticionPendiente
    /\ LET r == SheetsService_obtener_leads(sheet, limit)
           LeadResponse(data) == [data EXCEPT !.email = EmailNormalizado(@)]
           falla == r.lanza \/ \E i \in 1..Len(r.leads) : ~LeadResponseValido(r.leads[i])
       IN respuesta' =
            IF falla
            THEN [st |-> 500, errores |-> {}, fila |-> <<>>,
                  detail |-> "Error al obtener leads", leads |-> <<>>]
            ELSE [st |-> 200, errores |-> {}, fila |-> <<>>, detail |-> "",
                  leads |-> [i \in 1..Len(r.leads) |-> LeadResponse(r.leads[i])]]
    /\ peticion' = SinPeticion
    /\ UNCHANGED <<chatVars, texto, sheet, appends>>

Limites == (-2)..(MaxFilas + 1)

InitLeads ==
    /\ InitChat
    /\ texto = SinTexto
    /\ sheet \in {NoSheet, <<>>}
    /\ SinLeads

NextLeads ==
    \/ \E b \in Cuerpos : LlegaLead(b)
    \/ RechazaLead
    \/ \E res \in {"ok"} \cup ErroresAppend : crear_lead(res)
    \/ \E limit \in Limites : obtener_leads(limit)

SpecLeads == InitLeads /\ [][NextLeads]_vars

\* ------------------------------------------------------- reading a sheet
\* Rows as people and other programs may leave them in the sheet: two rows
\* as the service writes them, and rows cut short.
FilaA ==
    << <<"uuid", "1">>, <<"a", "a">>, <<"a", "a">>, <<"a", "@", "a", ".", "a">>,
       <<>>, <<"a">>, <<"fecha">>, <<"nuevo">> >>
FilaB ==
    << <<"uuid", "2">>, <<"a", "a">>, <<"a", "a">>, <<"a", "@", "a", ".", "a">>,
       <<"3", "0", "0", "1", "2", "3", "4", "5", "6", "7">>, <<>>, <<"fecha">>,
       <<"nuevo">> >>
FilasEjemplo ==
    {FilaA, FilaB, SubSeq(FilaA, 1, 7), SubSeq(FilaB, 1, 6), SubSeq(FilaA, 1, 2),
     <<>>}

RECURSIVE HojasDe(_)
HojasDe(n) ==
    IF n = 0 THEN {<<>>}
    ELSE LET cortas == HojasDe(n - 1)
         IN cortas \cup {Append(h, f) : h \in {g \in cortas : Len(g) = n - 1},
                                        f \in FilasEjemplo}
Hojas == HojasDe(MaxFilas)

InitLista ==
    /\ InitChat
    /\ texto = SinTexto
    /\ sheet \in Hojas
    /\ SinLeads

NextLista == \E limit \in Limites : obtener_leads(limit)

SpecLista == InitLista /\ [][NextLista]_vars

\* ====================================================== properties checked
\* the step just taken is obtener_o_crear_sesion called from POST /chat/message
EsInicio == ultima'.op = "inicio"
Devueltos == UNION {ligados[x] : x \in Ids}

\* C1: for a registered identifier obtener_o_crear_sesion returns that
\* identifier with the handle stored under it, and the registry's keys and
\* every handle's message count and history are the same after the call.
C1_RegisteredResolveIsRead ==
    [][(EsInicio /\ ultima'.sid \in DOMAIN sesiones) =>
          /\ ultima'.session_id = ultima'.sid
          /\ ultima'.agente = sesiones[ultima'.sid]
          /\ sesiones' = sesiones
          /\ agentes' = agentes]_vars

\* C1 witness: a resolve of a registered session that already has history
C1_Witness ==
    /\ ultima.op = "inicio"
    /\ ultima.cuerpo = FALSE
    /\ agentes[ultima.agente].total_mensajes >= 1
    /\ Len(agentes[ultima.agente].history) = 2

\* C2 as stated: no identifier is ever given two different handles by
\* obtener_o_crear_sesion, also across a delete of that identifier.
C2_OneHandlePerIdEver ==
    \A id \in Ids : Cardinality(ligados[id]) <= 1

\* C2 amended: while an identifier stays registered it keeps its handle and
\* obtener_o_crear_sesion returns the handle registered under the identifier
\* it returns; an identifier that is not registered (never seen, or deleted)
\* is bound to a new handle that was never returned before.
C2_OneHandleWhileRegistered ==
    [][/\ \A id \in DOMAIN sesiones \cap DOMAIN sesiones' :
              sesiones'[id] = sesiones[id]
       /\ EsInicio =>
              /\ ultima'.session_id \in DOMAIN sesiones'
              /\ ultima'.agente = sesiones'[ultima'.session_id]
              /\ ultima'.session_id \notin DOMAIN sesiones =>
                     ultima'.agente \notin Devueltos]_vars

\* C2 witness: an identifier deleted and passed again holds its second handle
C2_Witness ==
    /\ ultima.op = "inicio"
    /\ ultima.cuerpo = TRUE
    /\ Cardinality(ligados[ultima.session_id]) = 2
    /\ sesiones[ultima.session_id] = ultima.agente

\* C3: called with no identifier, obtener_o_crear_sesion returns an
\* identifier that was not registered, was never issued and never bound
\* before, with a new handle of count 0 and empty history; the registry gains
\* exactly that entry and every other entry and handle is unchanged.
C3_MintWhenAbsent ==
    [][(EsInicio /\ ultima'.sid = None) =>
          LET id == ultima'.session_id IN
          /\ id \notin DOMAIN sesiones
          /\ id \notin emitidos
          /\ ligados[id] = {}
          /\ DOMAIN sesiones' = DOMAIN sesiones \cup {id}
          /\ ultima'.agente = sesiones'[id]
          /\ ultima'.agente \notin DOMAIN agentes
          /\ agentes'[sesiones'[id]].total_mensajes = 0
          /\ agentes'[sesiones'[id]].history = <<>>
          /\ \A x \in DOMAIN sesiones :
                /\ sesiones'[x] = sesiones[x]
                /\ agentes'[sesiones[x]] = agentes[sesiones[x]]]_vars

\* C3 witness: a second identifier minted beside a session that has history
C3_Witness ==
    /\ ultima.op = "inicio"
    /\ ultima.sid = None
    /\ Cardinality(emitidos) = 2
    /\ \E x \in DOMAIN sesiones :
          x # ultima.session_id /\ agentes[sesiones[x]].total_mensajes >= 1

\* C4 as stated: a caller-supplied identifier that is not registered is not
\* registered; a fresh identifier is minted and returned instead.
C4_UnknownIdIsReplaced ==
    [][(EsInicio /\ ~Falsy(ultima'.sid) /\ ultima'.sid \notin DOMAIN sesiones) =>
          /\ ultima'.session_id # ultima'.sid
          /\ ultima'.session_id \in IdsUuid \ emitidos
          /\ ultima'.sid \notin DOMAIN sesiones']_vars

\* C4 amended: a caller-supplied non-empty identifier that is not registered
\* is itself registered with a new empty handle and returned unchanged, and
\* no identifier is minted; only an absent or empty identifier is replaced
\* by a minted one.
C4_UnknownIdIsRegistered ==
    [][/\ (EsInicio /\ ~Falsy(ultima'.sid) /\ ultima'.sid \notin DOMAIN sesiones) =>
              /\ ultima'.session_id = ultima'.sid
              /\ DOMAIN sesiones' = DOMAIN sesiones \cup {ultima'.sid}
              /\ ultima'.agente = sesiones'[ultima'.sid]
              /\ ultima'.agente \notin DOMAIN agentes
              /\ agentes'[ultima'.agente] = AgenteNuevo
              /\ emitidos' = emitidos
       /\ (EsInicio /\ Falsy(ultima'.sid)) =>
              /\ ultima'.session_id \in IdsUuid \ emitidos
              /\ emitidos' = emitidos \cup {ultima'.session_id}
              /\ Vacio \notin DOMAIN sesiones']_vars

\* C4 witness: a client-invented identifier has just been registered
C4_Witness ==
    /\ ultima.op = "inicio"
    /\ ultima.sid \in IdsCliente
    /\ ultima.cuerpo = TRUE
    /\ ultima.session_id = ultima.sid
    /\ agentes[sesiones[ultima.sid]] = AgenteNuevo

\* the turns of one completed exchange
Par(m) == <<UserTurn(m), ModelTurn(m)>>

\* C5: a send whose provider call succeeds appends exactly one user turn and
\* one model turn to that session's history and adds exactly 1 to its total
\* message count, touching no other handle; on a new session the statistics
\* are then total_mensajes = 1 and mensajes_en_historial = 2, and a stats
\* request reports the handle's count and history length.
C5_SendAppendsOnePair ==
    [][/\ \A q \in enCurso \ enCurso' :
            (ultima'.cuerpo = <<"respuesta", q.mensaje>>) =>
                /\ ultima'.status = 200
                /\ ultima'.session_id = q.session_id
                /\ DOMAIN agentes' = DOMAIN agentes
                /\ agentes'[q.agente].history =
                       agentes[q.agente].history \o Par(q.mensaje)
                /\ agentes'[q.agente].total_mensajes =
                       agentes[q.agente].total_mensajes + 1
                /\ \A h \in DOMAIN agentes \ {q.agente} :
                       agentes'[h] = agentes[h]
                /\ (agentes[q.agente] = AgenteNuevo) =>
                       obtener_estadisticas_agente(agentes'[q.agente]) =
                           [total_mensajes |-> 1,
                            mensajes_en_historial |-> 2,
                            costo_total |-> 0]
       /\ (ultima'.op = "stats" /\ ultima'.status = 200) =>
            /\ ultima'.cuerpo.total_mensajes =
                   agentes[sesiones[ultima'.sid]].total_mensajes
            /\ ultima'.cuerpo.mensajes_en_historial =
                   Len(agentes[sesiones[ultima'.sid]].history)]_vars

\* C5 witness: stats of a session after its one successful send
C5_Witness ==
    /\ ultima.op = "stats"
    /\ ultima.status = 200
    /\ ultima.cuerpo.total_mensajes = 1
    /\ ultima.cuerpo.mensajes_en_historial = 2
    /\ exitos[ultima.agente] = 1

\* C6: when the provider call fails, POST /chat/message answers 500 instead
\* of a normal reply, and every handle's history and count are unchanged.
C6_ProviderFailureIs500 ==
    [][\A q \in enCurso, e \in Errores :
          ProveedorResponde(q, e) =>
              /\ ultima'.status = 500
              /\ agentes' = agentes]_vars

\* a history made of complete exchanges only
ParesCompletos(h) ==
    /\ Len(h) % 2 = 0
    /\ \A i \in 1..(Len(h) \div 2) :
          \E m \in Mensajes :
              /\ h[2 * i - 1] = UserTurn(m)
              /\ h[2 * i] \in {ModelTurn(m), ModelTurnSinTexto}

\* C7: requests on the same session never interleave: at most one of them is
\* inside the provider call, the history is untouched while it is there, so
\* every history is a sequence of complete exchanges and the total message
\* count equals the number of successful sends.
C7_SameSessionSerialized ==
    /\ \A q1 \in enCurso, q2 \in enCurso :
          q1.agente = q2.agente => q1 = q2
    /\ \A q \in enCurso :
          /\ q.agente \in DOMAIN agentes
          /\ sesiones[q.session_id] = q.agente
          /\ q.enviado = Append(agentes[q.agente].history, UserTurn(q.mensaje))
    /\ \A h \in DOMAIN agentes :
          /\ ParesCompletos(agentes[h].history)
          /\ agentes[h].total_mensajes = exitos[h]

\* C7 witness: a request waits while another request of the same session,
\* which already holds one exchange, is inside the provider call
C7_Witness ==
    \E q \in enCurso, r \in pendientes :
        /\ r.sid = q.session_id
        /\ r.mensaje # q.mensaje
        /\ Len(q.enviado) = 3

\* C8: a request for another session can start while a request is inside
\* its provider call.
C8_DistinctSessionsDoNotBlock ==
    \A q \in enCurso, r \in pendientes :
        r.sid # q.session_id => PuedeIniciar(r)

\* C9: clear on a registered session empties its history (stats then report
\* mensajes_en_historial = 0), leaves total_mensajes as it was, keeps the
\* entry with the same identifier and handle, and touches no other handle.
C9_ClearKeepsCount ==
    [][(ultima'.op = "clear" /\ ultima'.sid \in DOMAIN sesiones) =>
          LET h == sesiones[ultima'.sid] IN
          /\ ultima'.status = 200
          /\ sesiones' = sesiones
          /\ DOMAIN agentes' = DOMAIN agentes
          /\ obtener_estadisticas_agente(agentes'[h]).mensajes_en_historial = 0
          /\ obtener_estadisticas_agente(agentes'[h]).total_mensajes =
                 agentes[h].total_mensajes
          /\ \A g \in DOMAIN agentes \ {h} : agentes'[g] = agentes[g]]_vars

\* C9 witness: a cleared session that has answered two messages
C9_Witness ==
    /\ ultima.op = "clear"
    /\ ultima.status = 200
    /\ agentes[ultima.agente].history = <<>>
    /\ agentes[ultima.agente].total_mensajes = 2

\* C10: delete on a registered session removes exactly that entry and leaves
\* every other entry and handle unchanged; a stats request for the same
\* identifier taken as the next step answers 404.
C10_DeleteThenNotFound ==
    [][/\ (ultima'.op = "delete" /\ ultima'.sid \in DOMAIN sesiones) =>
            /\ ultima'.status = 200
            /\ ultima'.sid \notin DOMAIN sesiones'
            /\ DOMAIN sesiones' = DOMAIN sesiones \ {ultima'.sid}
            /\ \A x \in DOMAIN sesiones' :
                  /\ sesiones'[x] = sesiones[x]
                  /\ agentes'[sesiones'[x]] = agentes[sesiones[x]]
       /\ (/\ ultima.op = "delete"
           /\ ultima.status = 200
           /\ ultima'.op = "stats"
           /\ ultima'.sid = ultima.sid) => ultima'.status = 404]_vars

\* C10 witness: a session was deleted while another one with history remains
C10_Witness ==
    /\ ultima.op = "delete"
    /\ ultima.status = 200
    /\ ultima.sid \notin DOMAIN sesiones
    /\ \E x \in DOMAIN sesiones : agentes[sesiones[x]].total_mensajes >= 1

\* everything of the registry and its handles
registro == <<sesiones, agentes, nextAgente, emitidos, ligados, exitos>>

\* C11: stats, clear and delete with an identifier that is not registered
\* answer 404, create no session and leave the registry and every handle
\* unchanged.
C11_UnknownIdIs404 ==
    [][(/\ ultima'.op \in {"stats", "clear", "delete"}
        /\ ultima'.sid \notin DOMAIN sesiones) =>
          /\ ultima'.status = 404
          /\ registro' = registro]_vars

\* C11 witness: clear of a deleted identifier beside a session with history
C11_Witness ==
    /\ ultima.op = "clear"
    /\ ultima.status = 404
    /\ ligados[ultima.sid] # {}
    /\ \E x \in DOMAIN sesiones : agentes[sesiones[x]].total_mensajes >= 1

\* C12: two provider failures that differ only in their error message give
\* the client of POST /chat/message the same response.
C12_NoRawErrorText ==
    \A q \in enCurso, e1 \in Errores, e2 \in Errores :
        RespuestaMensaje(q, enviar_mensaje_agente(AgenteNuevo, q.enviado,
                                                  q.mensaje, e1))
        = RespuestaMensaje(q, enviar_mensaje_agente(AgenteNuevo, q.enviado,
                                                    q.mensaje, e2))

\* C13: a chat request whose message is empty or longer than 2000 characters
\* is answered 422 and never becomes a request of the handler: no session is
\* created or looked up, no provider call starts, registry and handles are
\* unchanged; every request that reaches the handler has a message of 1 to
\* 2000 characters.
C13_InvalidMessageRejected ==
    [][/\ (ultima'.op = "message" /\ ultima'.status = 422) =>
              /\ registro' = registro
              /\ pendientes' = pendientes
              /\ enCurso' = enCurso
       /\ \A r \in pendientes' \cup enCurso' :
              Largo(r.mensaje) >= 1 /\ Largo(r.mensaje) <= 2000
       /\ \A m \in MensajesInvalidos :
              Largo(m) = 0 \/ Largo(m) > 2000]_vars

\* C13 witness: an over-long message refused while a session exists
C13_Witness ==
    /\ ultima.op = "message"
    /\ ultima.status = 422
    /\ ultima.cuerpo = <<"mensaje", "largo">>
    /\ DOMAIN sesiones # {}

\* C14: the session list reports the number of registered sessions and
\* exactly the registered identifiers, and changes neither the registry nor
\* any handle.
C14_ListIsReadOnlySnapshot ==
    [][ultima'.op = "sessions" =>
          /\ ultima'.status = 200
          /\ ultima'.cuerpo.total = Cardinality(DOMAIN sesiones)
          /\ ultima'.cuerpo.sesiones = DOMAIN sesiones
          /\ registro' = registro
          /\ pendientes' = pendientes]_vars

\* C14 witness: a list taken after a delete, with two sessions registered
C14_Witness ==
    /\ ultima.op = "sessions"
    /\ ultima.cuerpo.total = 2
    /\ nextAgente > 3

\* C16: sanitizing a sanitized text returns it unchanged, for every text
\* made of markup, angle brackets, ampersands, quotes, hyphens, semicolons,
\* commas, parentheses, plus signs, spaces and letters.
C16_SanitizeIdempotent ==
    texto.paso = 2 => texto.yy = texto.y

\* C16 witness: a text with a tag and a quote whose sanitized form is
\* neither the text nor empty, sanitized twice
C16_Witness ==
    /\ texto.paso = 2
    /\ \E i \in 1..Len(texto.x) : texto.x[i] = "<"
    /\ \E i \in 1..Len(texto.x) : texto.x[i] = "'"
    /\ texto.y # <<>>
    /\ texto.y # texto.x

\* what C17 says the sanitizer removes: tags (as bleach finds them), angle
\* brackets, quote marks, semicolons and double hyphens, then outer blanks
RECURSIVE SinTags(_, _)
SinTags(t, i) ==
    IF i > Len(t) THEN <<>>
    ELSE IF /\ t[i] = "<"
            /\ i < Len(t)
            /\ t[i + 1] \in Letras \cup {"/"}
            /\ HayCierre(t, i + 1)
    THEN SinTags(t, Cierre(t, i + 1) + 1)
    ELSE <<t[i]>> \o SinTags(t, i + 1)

RECURSIVE SinDobleGuion(_, _)
SinDobleGuion(t, i) ==
    IF i > Len(t) THEN <<>>
    ELSE IF i < Len(t) /\ t[i] = "-" /\ t[i + 1] = "-"
    THEN SinDobleGuion(t, i + 2)
    ELSE <<t[i]>> \o SinDobleGuion(t, i + 1)

Declarado(t) ==
    Strip(SinDobleGuion(Filtra(SinTags(t, 1), 1, {"<", ">", "'", "\"", ";"}), 1))

\* C17: sanitizar_texto removes exactly tags, angle brackets, quote marks,
\* double hyphens and semicolons and trims; every other character, such as a
\* single hyphen, a comma, a parenthesis or a plus sign, stays in its place.
C17_RemovesExactlyListed ==
    texto.paso >= 1 => texto.y = Declarado(texto.x)

\* the pending lead request is answered in this step
SirveLead == PeticionPendiente /\ respuesta' # SinRespuesta

SoloDigitos(t) == SelectSeq(t, LAMBDA c : c \in Digitos)

\* C15: a lead request whose company is empty after trimming is answered
\* with a validation error on the company field, and append_row is not
\* called for it: the sheet and the count of appends stay as they were.
C15_EmptyCompanyRejected ==
    [][ (SirveLead /\ peticion.empresa # Ausente /\ Strip(peticion.empresa) = <<>>)
        => /\ respuesta'.st = 422
           /\ "empresa" \in respuesta'.errores
           /\ sheet' = sheet
           /\ appends' = appends ]_vars

\* C15 witness: on a sheet that already holds a row, a request whose only
\* fault is a company of blanks was refused on that field
C15_Witness ==
    /\ peticion.empresa = <<" ", " ", " ">>
    /\ respuesta.st = 422
    /\ respuesta.errores = {"empresa"}
    /\ sheet # NoSheet
    /\ Len(sheet) = 1

\* C18: a phone written with separators whose digits are ten and begin with
\* 3 is accepted: the request is not refused on the phone field, and a row
\* stored for it holds the digits only.
C18_SeparatedPhoneAccepted ==
    [][ (/\ SirveLead
         /\ peticion.telefono # Ausente
         /\ SoloDigitos(peticion.telefono) # peticion.telefono
         /\ Len(SoloDigitos(peticion.telefono)) = 10
         /\ SoloDigitos(peticion.telefono)[1] = "3")
        => /\ "telefono" \notin respuesta'.errores
           /\ respuesta'.st = 201
                => respuesta'.fila[ColTelefono] = SoloDigitos(peticion.telefono) ]_vars

TelefonoMalo(t) ==
    /\ t # Ausente
    /\ t # <<>>
    /\ Len(SoloDigitos(t)) # 10 \/ SoloDigitos(t)[1] # "3"

TelefonoDeFila(t) ==
    \/ t = Ausente
    \/ Len(t) = 10 /\ t[1] = "3" /\ \A i \in 1..Len(t) : t[i] \in Digitos

\* C19: a request with a non-empty phone whose digits are not ten, or do not
\* begin with 3, is refused on the phone field and nothing is appended; every
\* row of the sheet has a phone that is absent or ten digits beginning
\* with 3.
C19_BadPhoneRejected ==
    /\ [](sheet # NoSheet =>
            \A i \in 1..Len(sheet) : TelefonoDeFila(sheet[i][ColTelefono]))
    /\ [][ (SirveLead /\ TelefonoMalo(peticion.telefono))
           => /\ respuesta'.st = 422
              /\ "telefono" \in respuesta'.errores
              /\ sheet' = sheet
              /\ appends' = appends ]_vars

\* C19 witness: ten digits beginning with 1 were refused on the phone field
\* alone, on a sheet whose one row holds a phone
C19_Witness ==
    /\ peticion.telefono = <<"1", "2", "3", "4", "5", "6", "7", "8", "9", "0">>
    /\ respuesta.st = 422
    /\ respuesta.errores = {"telefono"}
    /\ sheet # NoSheet
    /\ Len(sheet) = 1
    /\ sheet[1][ColTelefono] # Ausente

\* C20: a request whose phone is present but empty is never refused on the
\* phone field; a row stored for it has no phone.
C20_EmptyPhoneIsAbsent ==
    [][ (SirveLead /\ peticion.telefono = <<>>)
        => /\ "telefono" \notin respuesta'.errores
           /\ respuesta'.st = 201 => respuesta'.fila[ColTelefono] = Ausente ]_vars

EsPrefijo(a, b) == Len(a) <= Len(b) /\ SubSeq(b, 1, Len(a)) = a

\* C22: serving a POST /api/leads request calls append_row at most once: a
\* 201 appends exactly the answered row, a 422 appends nothing, a 500 leaves
\* the sheet as it was with no second call; no other step calls append_row,
\* and the rows already in the sheet stay as they are, in place.
C22_AtMostOneAppend ==
    [][ /\ appends' - appends \in {0, 1}
        /\ sheet # NoSheet => (sheet' # NoSheet /\ EsPrefijo(sheet, sheet'))
        /\ SirveLead =>
             /\ respuesta'.st \in {201, 422, 500}
             /\ respuesta'.st = 201 =>
                    sheet' = Append(sheet, respuesta'.fila) /\ appends' = appends + 1
             /\ respuesta'.st = 422 => sheet' = sheet /\ appends' = appends
             /\ respuesta'.st = 500 => sheet' = sheet
        /\ ~SirveLead => sheet' = sheet /\ appends' = appends ]_vars

\* C22 witness: a row was stored, then a second valid request met a failing
\* append_row and was answered 500 after that one call
C22_Witness ==
    /\ respuesta.st = 500
    /\ sheet # NoSheet
    /\ Len(sheet) = 1
    /\ appends = 2

\* C23: GET /api/leads on an open sheet is not answered 500, whatever rows
\* the sheet holds: a row of fewer than 8 columns is listed with empty
\* values for the missing columns.
C23_ShortRowsAreRead ==
    respuesta.st # 500

\* C24: for every limit >= 0, the service's list is the first
\* min(limit, n) of the n data rows, in sheet order, and none of its records
\* is the header row; a 200 answer of GET /api/leads is such a list.
C24_ListIsPrefix ==
    /\ \A limit \in 0..(MaxFilas + 1) :
          LET r == SheetsService_obtener_leads(sheet, limit)
          IN /\ ~r.lanza
             /\ Len(r.leads) = Min(limit, Len(sheet))
             /\ \A i \in 1..Len(r.leads) :
                   /\ r.leads[i] = LeadDeFila(get_all_values(sheet)[i + 1])
                   /\ r.leads[i] # LeadDeFila(Encabezado)
    /\ respuesta.st = 200 =>
          /\ Len(respuesta.leads) <= Len(sheet)
          /\ \A i \in 1..Len(respuesta.leads) :
                respuesta.leads[i] =
                    [LeadDeFila(get_all_values(sheet)[i + 1])
                        EXCEPT !.email = EmailNormalizado(@)]

\* C24 witness: a sheet of two rows listed with limit 1
C24_Witness ==
    /\ respuesta.st = 200
    /\ Len(sheet) = 2
    /\ Len(respuesta.leads) = 1
    /\ respuesta.leads[1].id = sheet[1][1]

\* C25: every row of the sheet has a company and a contact name that are
\* sanitized texts of at least 2 characters; a request whose company or name
\* is missing or sanitizes to fewer than 2 characters is refused with a
\* validation error on that field and stores nothing.
C25_NamesAtLeastTwo ==
    /\ [](sheet # NoSheet =>
            \A i \in 1..Len(sheet) : \A col \in {ColEmpresa, ColNombre} :
                /\ Len(sheet[i][col]) >= 2
                /\ sanitizar_texto(sheet[i][col]) = sheet[i][col])
    /\ [][ SirveLead =>
             \A c \in {"empresa", "nombre"} :
                (peticion[c] = Ausente \/ Len(sanitizar_texto(peticion[c])) < 2)
                  => /\ respuesta'.st = 422
                     /\ c \in respuesta'.errores
                     /\ sheet' = sheet ]_vars

\* C25 witness: a name that sanitizes to one character was refused on the
\* name field alone, on a sheet that holds a row
C25_Witness ==
    /\ peticion.nombre = <<"a", "-">>
    /\ respuesta.st = 422
    /\ respuesta.errores = {"nombre"}
    /\ sheet # NoSheet
    /\ Len(sheet) = 1

\* C26: a request with a message is never refused on the message field; the
\* row stored for it has no message when the message sanitizes to the empty
\* text, and the sanitized message otherwise.
C26_EmptyMessageIsAbsent ==
    [][ (SirveLead /\ peticion.mensaje # Ausente) =>
          /\ "mensaje" \notin respuesta'.errores
          /\ respuesta'.st = 201 =>
               respuesta'.fila[ColMensaje] =
                  IF sanitizar_texto(peticion.mensaje) = <<>>
                  THEN Ausente
                  ELSE sanitizar_texto(peticion.mensaje) ]_vars

\* C26 witness: a message made of one tag was stored as no message
C26_Witness ==
    /\ peticion.mensaje = <<"<", "a", ">">>
    /\ respuesta.st = 201
    /\ respuesta.fila[ColMensaje] = Ausente
    /\ sheet # NoSheet
    /\ sheet[Len(sheet)][ColMensaje] = Ausente

Minusculas(t) == [i \in 1..Len(t) |-> Minuscula(t[i])]

\* C27: a request whose email, blanks around it aside, is a well-formed
\* address is not refused on the email field, and the row stored for it holds
\* the address in lower case without the blanks; a request whose email is
\* not well formed is refused with a validation error on the email field.
C27_EmailNormalized ==
    [][ (SirveLead /\ peticion.email # Ausente) =>
          /\ EmailValido(Strip(peticion.email)) =>
                /\ "email" \notin respuesta'.errores
                /\ respuesta'.st = 201 =>
                      respuesta'.fila[ColEmail] = Minusculas(Strip(peticion.email))
          /\ ~EmailValido(Strip(peticion.email)) =>
                /\ respuesta'.st = 422
                /\ "email" \in respuesta'.errores ]_vars

\* C27 witness: " A@A.a " was stored as "a@a.a"
C27_Witness ==
    /\ peticion.email = <<" ", "A", "@", "A", ".", "a", " ">>
    /\ respuesta.st = 201
    /\ respuesta.fila[ColEmail] = <<"a", "@", "a", ".", "a">>

\* C28: the registry has no eviction: in every step every registered session
\* stays registered under the same handle, unless the step is a delete of
\* that same identifier answered 200.
C28_NoEviction ==
    [][\A id \in DOMAIN sesiones :
          \/ id \in DOMAIN sesiones' /\ sesiones'[id] = sesiones[id]
          \/ /\ ultima'.op = "delete"
             /\ ultima'.sid = id
             /\ ultima'.status = 200]_vars

\* C28 witness: a delete was answered 200 and another session, which has
\* completed a send, is still registered
C28_Witness ==
    /\ ultima.op = "delete"
    /\ ultima.status = 200
    /\ ultima.sid \notin DOMAIN sesiones
    /\ \E id \in DOMAIN sesiones :
          /\ id # ultima.sid
          /\ agentes[sesiones[id]].total_mensajes >= 1

\* C29: for every handle, total_mensajes equals the number of successful
\* sends since creation, and the history length is even and at most twice
\* total_mensajes.
C29_CountsMatchSends ==
    \A h \in DOMAIN agentes :
        /\ agentes[h].total_mensajes = exitos[h]
        /\ Len(agentes[h].history) % 2 = 0
        /\ Len(agentes[h].history) <= 2 * agentes[h].total_mensajes

\* the session a chat response is about
SesionDe(u) ==
    IF u.op \in {"message", "inicio"} THEN u.session_id ELSE u.sid

\* C30: a send, stats, clear or delete on one session leaves every other
\* registered session registered, with the same handle, and that handle's
\* total message count and history as they were.
C30_SessionsIsolated ==
    [][ultima'.op \in {"message", "inicio", "stats", "clear", "delete"} =>
          \A b \in DOMAIN sesiones \ {SesionDe(ultima')} :
              /\ b \in DOMAIN sesiones'
              /\ sesiones'[b] = sesiones[b]
              /\ sesiones[b] \in DOMAIN agentes'
              /\ agentes'[sesiones[b]] = agentes[sesiones[b]]]_vars

\* C30 witness: a clear on one session was answered 200 while another
\* registered session holds an exchange and a count of at least one
C30_Witness ==
    /\ ultima.op = "clear"
    /\ ultima.status = 200
    /\ agentes[ultima.agente].total_mensajes >= 1
    /\ \E b \in DOMAIN sesiones :
          /\ b # ultima.sid
          /\ Len(agentes[sesiones[b]].history) = 2
          /\ agentes[sesiones[b]].total_mensajes = 1

====
